---- MODULE Spec2Model ----
(***************************************************************************)
(* PurgeMessages (Vencord plugin): the /vpurge command handler, the two    *)
(* discovery walks (discoverMessages, discoverRangeMessages), the deletion *)
(* executor (executePurge) and the three per-channel maps.                 *)
(*                                                                         *)
(* JavaScript runs one task at a time, so a step of the model is the code  *)
(* that runs between two awaits: a command handler up to its first await,  *)
(* or the continuation of one async call (a list call or delete call       *)
(* settling, a sleep timer firing) up to the next await.                   *)
(***************************************************************************)
EXTENDS Integers, Sequences, FiniteSets

\* ------------------------------------------------------------------ bounds
MaxId == 4           \* record ids are 1..MaxId, a larger id is a newer record
MaxSpecId == 3       \* the records 1..MaxSpecId are in the channel of Spec
MaxLimit == 4        \* largest numeric count a command is given
MaxFaults == 1       \* transport faults in one behaviour of Spec
MaxWalkFaults == 16  \* failed or empty list calls in one behaviour of SpecFault
MaxBadPages == 3     \* pages that ignore the cursor in one behaviour of SpecFault
MaxStopFaults == 3   \* failed or empty calls in one behaviour of SpecEnv
MaxPairId == 1       \* the ids of the server channel in a behaviour of SpecPair
MaxLiveFaults == 5   \* failed or empty calls in one behaviour of SpecLive
MaxCount == 8        \* the history counts of list calls stop counting here

\* ------------------------------------------------------ program constants
BATCH_SIZE == 2      \* page size of a list call (100 in the source, scaled)
MAX_CONSECUTIVE_ERRORS == 3
MAX_EMPTY_BATCHES == 3
MAX_RETRIES == 5     \* for (let retry = 0; retry < 5; retry++)
MAX_VERIFY == 3      \* for (let verifyAttempt = 0; verifyAttempt < 3; ...)

Ids == 1..MaxId
None == 0            \* undefined id / undefined limit
Me == "me"           \* UserStore.getCurrentUser().id
Other == "u2"
NoUser == "none"     \* userId undefined
Users == {Me, Other}
Channels == {"c1", "c2"}
Procs == {1, 2}      \* async calls that can be in progress at once

VARIABLES
    chan,                  \* chan[c]: ids of the records the channel holds
    author,                \* author[id]: msg.author.id
    activePurges,          \* Map<string, ActivePurge>
    pendingConfirmations,  \* Map<string, PendingConfirmation>
    activeScans,           \* Map<string, {stop}>
    proc,                  \* the async calls: locals and position of each
    env                    \* the transport (mode, faults left) and the part of
                           \* the system a behaviour exercises

vars == <<chan, author, activePurges, pendingConfirmations, activeScans, proc, env>>

\* ------------------------------------------------------------- map entries
NoPurge == [on |-> FALSE, owner |-> 0, stop |-> FALSE, deleted |-> 0, failed |-> 0]
NoScan == [on |-> FALSE, owner |-> 0, stop |-> FALSE]
NoPending == [on |-> FALSE, count |-> 0, userId |-> NoUser, mode |-> "self", excludeIds |-> {}]

\* no entry made
PurgeNotSet(p) == NoPurge

\* const purge: ActivePurge = { stop: false, deleted: 0, failed: 0 }
NewPurge(p) == [on |-> TRUE, owner |-> p, stop |-> FALSE, deleted |-> 0, failed |-> 0]
\* activeScans.set(channelId, { stop: false })
NewScan(p) == [on |-> TRUE, owner |-> p, stop |-> FALSE]

\* ------------------------------------------------------------ sequences
Max(S) == CHOOSE x \in S : \A y \in S : y <= x

RECURSIVE Desc(_)
\* the ids of S, newest first
Desc(S) == IF S = {} THEN <<>> ELSE <<Max(S)>> \o Desc(S \ {Max(S)})

Take(s, n) == SubSeq(s, 1, IF Len(s) < n THEN Len(s) ELSE n)
Range(s) == {s[k] : k \in 1..Len(s)}
SelectNotIn(s, X) == SelectSeq(s, LAMBDA x : x \notin X)
NoDup(s) == \A j, k \in 1..Len(s) : j # k => s[j] # s[k]

\* ------------------------------------------------------------ async calls
Idle ==
    [pc |-> "idle", ch |-> "c1", kind |-> "run", mode |-> "self", range |-> FALSE,
     userId |-> NoUser, afterId |-> None, beforeId |-> None, limit |-> None,
     cdo |-> FALSE, excl |-> {},
     last |-> None, msgs |-> <<>>, seen |-> {},
     cerr |-> 0, empties |-> 0, retry |-> 0, vtry |-> 0, reported |-> <<>>,
     collecting |-> FALSE, found |-> FALSE, blen |-> 0,
     recs |-> <<>>, i |-> 0, deleted |-> 0, failed |-> 0, pref |-> 0,
     dup |-> FALSE,  \* the seen-set has dropped a record (history, read by the properties)
     lists |-> 0,    \* history: page fetches of the retry loop that have settled
     verifs |-> 0,   \* history: verification fetches that have settled
     since |-> 0,    \* history: page fetches issued with the channel's stop flag set
     count |-> 0,    \* history: confirmation.count of a confirmed purge
     err |-> "none"] \* the error the catch block of the retry loop holds

Free(p) == proc[p].pc = "idle"
Running(p) == proc[p].pc \notin {"idle", "done"}
\* a settled scan, whose slot the confirm that follows it may take
Replaceable(p) == proc[p].pc = "done" /\ proc[p].kind = "scan"

\* A world is what one synchronous stretch of code reads and writes: the
\* locals of the call (s), the three maps, the channel contents, and the bot
\* message sent last (out).
World(p) ==
    [s |-> proc[p], me |-> p, scans |-> activeScans, purges |-> activePurges,
     pend |-> pendingConfirmations, chan |-> chan, out |-> "none"]

\* function shouldStop(channelId)
shouldStop(w) == w.scans[w.s.ch].stop \/ w.purges[w.s.ch].stop

\* the map emptied
DeleteScanEverywhere(w) == [w EXCEPT !.scans = [c \in Channels |-> NoScan]]

\* activeScans.delete(channelId)
DeleteScan(w) == [w EXCEPT !.scans[w.s.ch] = NoScan]
\* the entry left in the map
KeepPurge(w) == w

\* activePurges.delete(channelId)
DeletePurge(w) == [w EXCEPT !.purges[w.s.ch] = NoPurge]

Say(w, m) == [w EXCEPT !.out = m]
Goto(w, pc) == [w EXCEPT !.s.pc = pc]

\* The call has settled. Where return values are observed (env.keep) the call
\* keeps its slot and what it returned: its options, the records it found and
\* its counts. Otherwise the slot is free for the next call.
Finish(w) ==
    IF env.keep
    THEN [w EXCEPT !.s = [Idle EXCEPT !.pc = "done", !.ch = w.s.ch, !.kind = w.s.kind,
                                 !.mode = w.s.mode, !.range = w.s.range,
                                 !.userId = w.s.userId, !.afterId = w.s.afterId,
                                 !.beforeId = w.s.beforeId, !.limit = w.s.limit,
                                 !.cdo = w.s.cdo, !.excl = w.s.excl,
                                 !.msgs = w.s.msgs, !.recs = w.s.recs,
                                 !.deleted = w.s.deleted, !.failed = w.s.failed,
                                 !.dup = w.s.dup, !.lists = w.s.lists,
                                 !.verifs = w.s.verifs, !.since = w.s.since,
                                 !.reported = w.s.reported, !.count = w.s.count]]
    ELSE [w EXCEPT !.s = Idle]

\* ------------------------------------------------------------ permissions
\* isDM(channelId): c2 is a direct-message channel, c1 a guild channel
isDM(c) == c = "c2"
\* canManageMessages(channelId): PermissionStore.can(MANAGE_MESSAGES, channel),
\* which the actor holds in c1 while env.perm
canManageMessages(c) == IF isDM(c) THEN FALSE ELSE c = "c1" /\ env.perm

\* ------------------------------------------------------------- executePurge
\* the flag never read as set
PurgeStopNever(w) == FALSE

\* purge.stop, read through the reference executePurge took from the map
PurgeStop(w) ==
    LET e == w.purges[w.s.ch] IN
    IF e.on /\ e.owner = w.s.pref THEN e.stop ELSE FALSE

\* no record is ever skipped as excluded
ExcludedNever(s, id) == FALSE

\* excludeIds?.has(msg.id)
Excluded(s, id) == id \in s.excl

\* no record is ever skipped for its author
NotAllowedNever(s, id) == FALSE

\* !isOwnMessage && !canDeleteOthers
NotAllowed(s, id) == author[id] # Me /\ ~s.cdo

\* runPurge / confirm, after executePurge returned its counts
ExecReturn(w) == Finish(Say(DeletePurge(w), "result"))

RECURSIVE ExecLoop(_)
\* for (let i = 0; i < messages.length; i++), up to the next RestAPI.del
ExecLoop(w) ==
    LET s == w.s IN
    IF s.i > Len(s.recs) THEN ExecReturn(w)
    ELSE IF PurgeStop(w) THEN ExecReturn(w)
    ELSE IF Excluded(s, s.recs[s.i]) THEN ExecLoop([w EXCEPT !.s.i = @ + 1])
    ELSE IF NotAllowed(s, s.recs[s.i]) THEN ExecLoop([w EXCEPT !.s.i = @ + 1])
    ELSE Goto(w, "del")

\* executePurge(channelId, messages, canDeleteOthers, excludeIds)
executePurge(w, messages, canDeleteOthers) ==
    LET e == w.purges[w.s.ch]
        v == [w EXCEPT !.s.recs = messages, !.s.cdo = canDeleteOthers,
                       !.s.deleted = 0, !.s.failed = 0]
    IN  IF ~e.on THEN ExecReturn(v)
        ELSE ExecLoop([v EXCEPT !.s.i = 1, !.s.pref = e.owner])

\* the ActivePurge object executePurge holds is still the channel's entry
Held(w) == w.purges[w.s.ch].on /\ w.purges[w.s.ch].owner = w.s.pref

\* a successful delete that is counted by the executor alone
DeletedUnmirrored(w) ==
    LET s == w.s
        u == [w EXCEPT !.s.deleted = @ + 1, !.chan[s.ch] = @ \ {s.recs[s.i]}]
    IN  IF s.i < Len(s.recs) THEN Goto(u, "delSleep")
        ELSE ExecLoop([u EXCEPT !.s.i = @ + 1])

\* await RestAPI.del(...) resolved: deleted++; purge.deleted = deleted
Deleted(w) ==
    LET s == w.s
        u == [w EXCEPT !.s.deleted = @ + 1, !.chan[s.ch] = @ \ {s.recs[s.i]}]
        v == IF Held(u) THEN [u EXCEPT !.purges[s.ch].deleted = u.s.deleted] ELSE u
    IN  IF s.i < Len(s.recs) THEN Goto(v, "delSleep")
        ELSE ExecLoop([v EXCEPT !.s.i = @ + 1])

\* the executor returns at the first rejected delete call
DeleteFailedAborts(w) == ExecReturn([w EXCEPT !.s.failed = @ + 1])

\* await RestAPI.del(...) rejected: failed++; purge.failed = failed
DeleteFailed(w) ==
    LET u == [w EXCEPT !.s.failed = @ + 1]
        v == IF Held(u) THEN [u EXCEPT !.purges[w.s.ch].failed = u.s.failed] ELSE u
    IN  ExecLoop([v EXCEPT !.s.i = @ + 1])

\* ------------------------------------------------- the callers of discovery
\* messages.filter(msg => !excludeIds.has(msg.id))
Filtered(s) == SelectNotIn(s.msgs, s.excl)

\* a scan that stores its PendingConfirmation whatever it found
ScanThenStoring(w) ==
    Finish(Say([w EXCEPT !.pend[w.s.ch] =
                   [on |-> TRUE, count |-> Len(Filtered(w.s)), userId |-> w.s.userId,
                    mode |-> w.s.mode, excludeIds |-> w.s.excl]],
               "scanComplete"))

\* discoverMessages(...).then(messages => ...) of an 'all' request
ScanThen(w) ==
    LET f == Filtered(w.s) IN
    IF Len(f) = 0 THEN Finish(Say(w, "noneFound"))
    ELSE Finish(Say([w EXCEPT !.pend[w.s.ch] =
                        [on |-> TRUE, count |-> Len(f), userId |-> w.s.userId,
                         mode |-> w.s.mode, excludeIds |-> w.s.excl]],
                    "scanComplete"))

\* runPurge, after await discoverMessages
RunThen(w) ==
    IF Len(w.s.msgs) = 0 THEN Finish(Say(DeletePurge(w), "noneFound"))
    ELSE executePurge(w, w.s.msgs, w.s.cdo)

\* the async block of confirm, after await discoverMessages
ConfirmThen(w) ==
    LET f == Filtered(w.s) IN
    IF Len(f) = 0 THEN Finish(Say(DeletePurge(w), "noneFound"))
    ELSE executePurge(w, f, canManageMessages(w.s.ch))

\* discovery returned w.s.msgs to its caller
Settled(w) ==
    CASE w.s.kind = "scan" -> ScanThen(w)
      [] w.s.kind = "run" -> RunThen(w)
      [] OTHER -> ConfirmThen(w)

\* activeScans.delete(channelId); return messages
Ret(w) == Settled(DeleteScan(w))

\* --------------------------------------------------------- discoverMessages
\* the limit check that lets one record too many through
LimitPassed(s) == s.limit # None /\ Len(s.msgs) > s.limit

\* limit && messages.length >= limit
LimitReached(s) == s.limit # None /\ Len(s.msgs) >= s.limit

\* no record is ever recognised as seen before
SeenNever(s, id) == FALSE

\* seenMessageIds.has(msg.id)
Seen(s, id) == id \in s.seen

\* !userId || msg.author?.id === userId
Matches(s, id) == s.userId = NoUser \/ author[id] = s.userId

RECURSIVE Collect(_, _, _)
\* for (const msg of batch) of discoverMessages, from the k-th record on
Collect(s, batch, k) ==
    IF k > Len(batch) THEN s
    ELSE IF Seen(s, batch[k]) THEN Collect([s EXCEPT !.dup = TRUE], batch, k + 1)
    ELSE LET t == [s EXCEPT !.seen = @ \cup {batch[k]}] IN
         IF Matches(t, batch[k])
         THEN LET u == [t EXCEPT !.msgs = Append(@, batch[k])] IN
              IF LimitReached(u) THEN u ELSE Collect(u, batch, k + 1)
         ELSE Collect(t, batch, k + 1)

\* a walk that ends after a page when it has collected nothing
PageDoneEmptyEnds(w) ==
    IF LimitReached(w.s) \/ w.s.msgs = <<>> THEN Ret(w) ELSE Goto(w, "pageSleep")

\* if (limit && messages.length >= limit) break; await sleep(DISCOVERY_DELAY)
PageDone(w) == IF LimitReached(w.s) THEN Ret(w) ELSE Goto(w, "pageSleep")

\* after the verification loop of a short page: if (batch.length === 0) break
ShortPageDone(w) == IF w.s.blen = 0 THEN Ret(w) ELSE PageDone(w)

\* lastReportedCount: the value onProgress was last called with
lastReportedCount(s) == IF s.reported = <<>> THEN 0 ELSE s.reported[Len(s.reported)]

\* onProgress(n): the values it is called with are kept where env.count asks
\* for it, the last one otherwise
Told(s, n) == [s EXCEPT !.reported = IF env.count THEN Append(@, n) ELSE <<n>>]

\* a callback called after every page
ReportEveryPage(s) == IF s.kind = "scan" THEN Told(s, Len(s.msgs)) ELSE s

\* onProgress is passed by the 'all' requests only
Report(s) ==
    IF s.kind = "scan" /\ Len(s.msgs) # lastReportedCount(s)
    THEN Told(s, Len(s.msgs)) ELSE s

\* the cursor check: batch[batch.length - 1].id against lastMessageId
Stalled(s, newLast) == s.last # None /\ newLast = s.last

\* a non-empty batch of discoverMessages, from the for loop to the next await
Batch(w, batch) ==
    IF shouldStop(w) THEN Ret(w)
    ELSE LET s == Report(Collect([w.s EXCEPT !.blen = Len(batch)], batch, 1))
             newLast == batch[Len(batch)]
         IN  IF Stalled(s, newLast) THEN Ret([w EXCEPT !.s = s])
             ELSE LET v == [w EXCEPT !.s = [s EXCEPT !.last = newLast, !.vtry = 0]] IN
                  IF Len(batch) < BATCH_SIZE THEN Goto(v, "verifyS")
                  ELSE PageDone(v)

\* the top of while (true) of discoverMessages, up to the list call
DiscoverLoop(w) ==
    IF shouldStop(w) THEN Ret(w)
    ELSE IF LimitReached(w.s) THEN Ret(w)
    ELSE Goto([w EXCEPT !.s.retry = 0], "fetch")

\* ---------------------------------------------------- discoverRangeMessages
\* afterId && !beforeId && msg.id === afterId
AfterOnlyHit(t, id) == t.afterId # None /\ t.beforeId = None /\ id = t.afterId
\* the before-only branch never taken
BeforeOnlyNever(t) == FALSE

\* beforeId && !afterId, and !foundBoundary inside it
BeforeOnlyPending(t) == t.beforeId # None /\ t.afterId = None /\ ~t.found
\* afterId && beforeId, and msg.id === beforeId inside it
RangeStartHit(t, id) == t.afterId # None /\ t.beforeId # None /\ id = t.beforeId
\* afterId && beforeId, and msg.id === afterId inside it
RangeEndHit(t, id) == t.afterId # None /\ t.beforeId # None /\ id = t.afterId
\* a push that does not look at collecting
CollectsAlways(t, id) == t.userId = NoUser \/ author[id] = t.userId

\* collecting && (!userId || msg.author?.id === userId)
Collects(t, id) == t.collecting /\ Matches(t, id)

RECURSIVE RangeCollect(_, _, _)
\* for (const msg of batch) of discoverRangeMessages, from the k-th record on
RangeCollect(s, batch, k) ==
    IF k > Len(batch) THEN s
    ELSE LET id == batch[k] IN
    IF Seen(s, id) THEN RangeCollect([s EXCEPT !.dup = TRUE], batch, k + 1)
    ELSE LET t == [s EXCEPT !.seen = @ \cup {id}] IN
    IF AfterOnlyHit(t, id)
    THEN [t EXCEPT !.found = TRUE, !.collecting = FALSE, !.last = id]
    ELSE IF BeforeOnlyPending(t)
    THEN IF id = t.beforeId
         THEN RangeCollect([t EXCEPT !.collecting = TRUE, !.found = TRUE, !.last = id],
                           batch, k + 1)
         ELSE RangeCollect([t EXCEPT !.last = id], batch, k + 1)
    ELSE IF RangeStartHit(t, id)
    THEN RangeCollect([t EXCEPT !.collecting = TRUE, !.found = TRUE, !.last = id],
                      batch, k + 1)
    ELSE IF RangeEndHit(t, id)
    THEN [t EXCEPT !.collecting = FALSE, !.found = TRUE, !.last = id]
    ELSE LET u == IF Collects(t, id) THEN [t EXCEPT !.msgs = Append(@, id)] ELSE t
         IN  RangeCollect([u EXCEPT !.last = id], batch, k + 1)

\* a non-empty batch of discoverRangeMessages, from the for loop to the next await
RangeBatch(w, batch) ==
    LET s0 == [w.s EXCEPT !.blen = Len(batch), !.vtry = 0]
        s == IF shouldStop(w) THEN s0 ELSE RangeCollect(s0, batch, 1)
        v == [w EXCEPT !.s = s]
    IN  IF s.afterId # None /\ s.found /\ ~s.collecting THEN Ret(v)
        ELSE IF s.beforeId # None /\ s.afterId = None /\ ~s.found
                /\ Len(batch) < BATCH_SIZE THEN Ret(v)
        ELSE IF Len(batch) < BATCH_SIZE THEN Goto(v, "verifyS")
        ELSE Goto(v, "pageSleep")

\* after the verification loop of a short page of the range walk
RangeShortDone(w) == IF w.s.blen = 0 THEN Ret(w) ELSE Goto(w, "pageSleep")

\* the top of while (true) of discoverRangeMessages, up to the list call
RangeLoop(w) ==
    IF shouldStop(w) THEN Ret(w)
    ELSE Goto([w EXCEPT !.s.retry = 0], "fetch")

\* --------------------------------------------------- both walks, by position
Loop(w) == IF w.s.range THEN RangeLoop(w) ELSE DiscoverLoop(w)
OnBatch(w, batch) == IF w.s.range THEN RangeBatch(w, batch) ELSE Batch(w, batch)
OnShortDone(w) == IF w.s.range THEN RangeShortDone(w) ELSE ShortPageDone(w)

\* the first empty page taken for the end
TooManyEmptyAtOnce(s) == s.empties >= 1

\* emptyBatchCount >= MAX_EMPTY_BATCHES
TooManyEmpty(s) == s.empties >= MAX_EMPTY_BATCHES

\* a walk that does not count its empty pages
FetchedUncounted(w, batch) ==
    IF Len(batch) = 0 THEN Goto(w, "emptySleep")
    ELSE OnBatch([w EXCEPT !.s.empties = 0], batch)

\* a list call of the retry loop returned `batch`
Fetched(w, batch) ==
    LET v == IF w.s.range THEN w ELSE [w EXCEPT !.s.cerr = 0] IN
    IF Len(batch) = 0
    THEN LET u == [v EXCEPT !.s.empties = @ + 1, !.s.vtry = 0] IN
         IF TooManyEmpty(u.s)
         THEN IF u.s.last # None THEN Goto(u, "verifyE") ELSE Ret(u)
         ELSE Goto(u, "emptySleep")
    ELSE OnBatch([v EXCEPT !.s.empties = 0], batch)

\* a walk that ends at the first page it gives up
FetchFailedEnds(w) == Ret(w)

\* the retry loop is over without success
FetchFailed(w) ==
    IF w.s.range THEN Ret(w)
    ELSE LET v == [w EXCEPT !.s.cerr = @ + 1] IN
         IF v.s.cerr >= MAX_CONSECUTIVE_ERRORS THEN Ret(v)
         ELSE Goto(v, "errSleep")

\* a retry loop without its bound
RetryLeftAlways(s) == TRUE

\* retry++; retry < 5
RetryLeft(s) == s.retry + 1 < MAX_RETRIES
\* verifyAttempt++; verifyAttempt < 3
VerifyLeft(s) == s.vtry + 1 < MAX_VERIFY

\* a sleep of the walks or of the executor is over
Woken(w) ==
    CASE w.s.pc = "retrySleep" ->
            IF RetryLeft(w.s)
            THEN Goto([w EXCEPT !.s.retry = @ + 1, !.s.err = "none"], "fetch")
            ELSE FetchFailed([w EXCEPT !.s.err = "none"])
      [] w.s.pc \in {"errSleep", "emptySleep", "pageSleep"} -> Loop(w)
      [] w.s.pc = "verifyESleep" ->
            IF VerifyLeft(w.s)
            THEN Goto([w EXCEPT !.s.vtry = @ + 1], "verifyE")
            ELSE Ret(w)
      [] w.s.pc = "verifySSleep" ->
            IF VerifyLeft(w.s)
            THEN Goto([w EXCEPT !.s.vtry = @ + 1], "verifyS")
            ELSE OnShortDone(w)
      [] OTHER -> ExecLoop([w EXCEPT !.s.i = @ + 1])   \* delSleep

\* a verification list call returned `batch`, or threw (batch = <<>>)
Verified(w, batch) ==
    IF Len(batch) = 0
    THEN Goto(w, IF w.s.pc = "verifyE" THEN "verifyESleep" ELSE "verifySSleep")
    ELSE IF w.s.pc = "verifyE" THEN OnBatch([w EXCEPT !.s.empties = 0], batch)
    ELSE OnShortDone([w EXCEPT !.s.blen = Len(batch)])

\* discoverMessages(channelId, options), up to its first await
discoverMessages(w) ==
    IF shouldStop(w) THEN Ret(w)
    ELSE IF w.s.afterId # None \/ w.s.beforeId # None
    THEN RangeLoop([w EXCEPT !.s.range = TRUE,
                             !.s.collecting = (w.s.afterId # None /\ w.s.beforeId = None)])
    ELSE DiscoverLoop(w)

\* ------------------------------------------------------------ the transport
\* GET /channels/{id}/messages?limit=BATCH_SIZE&before=...: newest first
HonestPage(c, before) ==
    Take(Desc({x \in chan[c] : before = None \/ x < before}), BATCH_SIZE)

\* every sequence of 1..BATCH_SIZE ids
AnyPages == UNION {[1..n -> Ids] : n \in 1..BATCH_SIZE}

\* what a list call may throw: a 429 (error.status === 429), a transient
\* failure (a network error, a 5xx) or a permanent one (a 403, a 404)
Errors == {"rate", "transient", "permanent"}

\* what a list call of p may settle with: the page the channel holds; and,
\* while the transport has faults left, an error, an empty page, or (a
\* transport that ignores the cursor) any page at all
Outcomes(p) ==
    LET honest == HonestPage(proc[p].ch, proc[p].last) IN
    {[t |-> "page", batch |-> honest, fault |-> FALSE, err |-> "none"]}
    \cup (IF env.faults > 0 /\ env.mode # "honest"
          THEN {[t |-> "throw", batch |-> <<>>, fault |-> TRUE, err |-> e] : e \in Errors}
               \cup (IF honest # <<>>
                     THEN {[t |-> "page", batch |-> <<>>, fault |-> TRUE, err |-> "none"]}
                     ELSE {})
          ELSE {})
    \cup (IF env.faults > 0 /\ env.mode = "adversarial"
          THEN {[t |-> "page", batch |-> b, fault |-> TRUE, err |-> "none"] :
                    b \in AnyPages \ {honest}}
          ELSE {})

\* ------------------------------------------------------- steps of the calls
Commit(p, w, fault) ==
    /\ proc' = [proc EXCEPT ![p] = w.s]
    /\ activeScans' = w.scans
    /\ activePurges' = w.purges
    /\ pendingConfirmations' = w.pend
    /\ chan' = w.chan
    /\ env' = IF fault THEN [env EXCEPT !.faults = @ - 1] ELSE env
    /\ UNCHANGED author

\* the world of p once one more list call of kind f ("lists" or "verifs")
\* has settled; the count is kept where env.count asks for it
Counted(p, f) ==
    IF ~env.count THEN World(p)
    ELSE IF f = "lists"
    THEN [World(p) EXCEPT !.s.lists = IF @ < MaxCount THEN @ + 1 ELSE @]
    ELSE [World(p) EXCEPT !.s.verifs = IF @ < MaxCount THEN @ + 1 ELSE @]

\* catch (error) of the retry loop; the error is kept where env.count asks
\* for it
Caught(w, e) == IF env.count THEN [w EXCEPT !.s.err = e] ELSE w

\* the world w of a step, noting a page fetch issued with the stop flag set
Issued(w) ==
    IF env.count /\ w.s.pc = "fetch" /\ shouldStop(w) /\ w.s.since < MAX_RETRIES
    THEN [w EXCEPT !.s.since = @ + 1] ELSE w

\* batch = await fetchMessageBatch(channelId, lastMessageId) settles
FetchBatch(p) ==
    /\ proc[p].pc = "fetch"
    /\ \E r \in Outcomes(p) :
          Commit(p, Issued(IF r.t = "throw"
                           THEN Goto(Caught(Counted(p, "lists"), r.err), "retrySleep")
                           ELSE Fetched(Counted(p, "lists"), r.batch)), r.fault)

\* verifyBatch = await fetchMessageBatch(channelId, lastMessageId) settles
VerifyBatch(p) ==
    /\ proc[p].pc \in {"verifyE", "verifyS"}
    /\ \E r \in Outcomes(p) :
          Commit(p, Issued(Verified(Counted(p, "verifs"), r.batch)), r.fault)

\* await sleep(...) is over
Wake(p) ==
    /\ proc[p].pc \in {"retrySleep", "errSleep", "emptySleep", "pageSleep",
                       "verifyESleep", "verifySSleep", "delSleep"}
    /\ Commit(p, Issued(Woken(World(p))), FALSE)

\* what a delete call of p may settle with: it fails for a record the
\* channel no longer holds, and may fail while the transport has faults left
DeleteOutcomes(p) ==
    LET there == proc[p].recs[proc[p].i] \in chan[proc[p].ch] IN
    {[ok |-> TRUE, fault |-> FALSE] : x \in {y \in {1} : there}}
    \cup {[ok |-> FALSE, fault |-> FALSE] : x \in {y \in {1} : ~there}}
    \cup {[ok |-> FALSE, fault |-> TRUE] : x \in {y \in {1} : there /\ env.faults > 0}}

\* await RestAPI.del(...) settles
Delete(p) ==
    /\ proc[p].pc = "del"
    /\ \E r \in DeleteOutcomes(p) :
          Commit(p, IF r.ok THEN Deleted(World(p)) ELSE DeleteFailed(World(p)), r.fault)

\* --------------------------------------------------------------- cancelling
\* The stop flag of a ScanState or of an ActivePurge is read by shouldStop
\* and by executePurge, and the replies name a '/vpurge stop'; no code of the
\* plugin sets the flag. These two actions set it as the specification
\* describes cancellation: the flag of the channel's entry is raised, and
\* nothing else changes.
StopScan(c) ==
    /\ activeScans[c].on /\ ~activeScans[c].stop
    /\ activeScans' = [activeScans EXCEPT ![c].stop = TRUE]
    /\ UNCHANGED <<chan, author, activePurges, pendingConfirmations, proc, env>>

StopPurge(c) ==
    /\ activePurges[c].on /\ ~activePurges[c].stop
    /\ activePurges' = [activePurges EXCEPT ![c].stop = TRUE]
    /\ UNCHANGED <<chan, author, activeScans, pendingConfirmations, proc, env>>

\* the actor loses Manage Messages in the guild channel
Revoke ==
    /\ env.perm
    /\ env' = [env EXCEPT !.perm = FALSE]
    /\ UNCHANGED <<chan, author, activePurges, activeScans, pendingConfirmations, proc>>

\* someone posts a record on channel c while a PendingConfirmation waits
\* there for its confirm: the record gets the next id
Post(c) ==
    /\ pendingConfirmations[c].on
    /\ \A p \in Procs : ~Running(p)
    /\ \E id \in Ids :
          /\ \A x \in chan[c] : x < id
          /\ \A y \in Ids : (\A x \in chan[c] : x < y) => id <= y
          /\ chan' = [chan EXCEPT ![c] = @ \cup {id}]
    /\ UNCHANGED <<author, activePurges, activeScans, pendingConfirmations, proc, env>>

\* ------------------------------------------------------------ the commands
\* The options a subcommand may carry, by env.inputs. "all": every count
\* without boundaries and every pair of boundaries without a count (and one
\* request with both). "some", "more" and "few": a few requests per subcommand.
Req(count, after, before, exclude) ==
    [count |-> count, after |-> after, before |-> before, exclude |-> exclude]
\* <<"num", n>> is the decimal numeral of n, <<"numx", n>> that numeral
\* followed by other characters ("2x"), <<"abc">> a string with no digit first
CountStrs ==
    {<<"undefined">>, <<"all">>, <<"ALL">>, <<"abc">>, <<"numx", 2>>}
    \cup {<<"num", n>> : n \in 0..MaxLimit}
ExcludeStrs == {<<>>, <<0, MaxId>>, <<2>>}
WideRequests ==
    {Req(c, None, None, e) : c \in CountStrs, e \in ExcludeStrs}
    \cup {Req(<<"undefined">>, ab[1], ab[2], e) :
            ab \in ((0..MaxId) \X (0..MaxId)) \ {<<None, None>>}, e \in ExcludeStrs}
    \cup {Req(<<"num", 1>>, 2, None, <<>>)}
SelfRequests ==
    CASE env.inputs = "all" -> WideRequests
      [] env.inputs \in {"some", "more"} ->
          {Req(<<"all">>, None, None, <<2>>), Req(<<"num", MaxLimit>>, None, None, <<>>)}
      [] OTHER ->
          {Req(<<"all">>, None, None, <<MaxSpecId>>), Req(<<"num", 1>>, None, None, <<>>),
           Req(<<"undefined">>, None, None, <<>>), Req(<<"num", 0>>, None, None, <<>>)}
UserRequests ==
    CASE env.inputs = "all" -> WideRequests
      [] env.inputs \in {"some", "more"} -> {Req(<<"all">>, None, None, <<>>)}
      [] OTHER -> {Req(<<"num", 1>>, 2, None, <<>>)}
AnyRequests ==
    CASE env.inputs = "all" -> WideRequests
      [] env.inputs = "some" -> {Req(<<"undefined">>, 1, MaxId, <<2>>)}
      [] env.inputs = "more" ->
          {Req(<<"undefined">>, 1, MaxId, <<2>>), Req(<<"all">>, None, None, <<>>)}
      [] OTHER -> {Req(<<"abc">>, None, None, <<>>)}
Targets == IF env.inputs = "all" THEN Users \cup {NoUser} ELSE {Other, NoUser}
\* the options an after or before subcommand may carry
BoundaryRequests ==
    IF env.inputs = "all" THEN [id : 0..MaxId, other : 0..MaxId, exclude : ExcludeStrs]
    ELSE {[id |-> 2, other |-> None, exclude |-> <<>>],
          [id |-> None, other |-> None, exclude |-> <<>>]}
UseChannels == env.chans
UseProcs == env.procs

\* parseExcludeIds(excludeStr): the non-empty pieces (0 is an empty piece)
parseExcludeIds(str) == {str[k] : k \in 1..Len(str)} \ {0}

\* countStr.toLowerCase() === "all"
IsAll(countStr) == countStr \in {<<"all">>, <<"ALL">>}
\* parseInt(countStr, 10): the number of the leading digits, whatever
\* follows them; -1 stands for NaN
parseInt(countStr) == IF countStr[1] \in {"num", "numx"} THEN countStr[2] ELSE -1

\* the world a command handler starts in: p is the slot its async call takes
Fresh(c, p) ==
    [s |-> [Idle EXCEPT !.ch = c], me |-> p, scans |-> activeScans,
     purges |-> activePurges, pend |-> pendingConfirmations, chan |-> chan,
     out |-> "none"]

\* runPurge(channelId, discoverOptions, canDeleteOthers, excludeIds, rangeText)
runPurge(w, userId, afterId, beforeId, limit, canDeleteOthers, excludeIds) ==
    discoverMessages(
        [w EXCEPT !.purges[w.s.ch] = NewPurge(w.me),
                  !.s.kind = "run", !.s.userId = userId, !.s.afterId = afterId,
                  !.s.beforeId = beforeId, !.s.limit = limit,
                  !.s.cdo = canDeleteOthers, !.s.excl = excludeIds])

\* an 'all' request that purges at once instead of scanning
scanAllPurging(w, userId, mode, excludeIds) ==
    runPurge(w, userId, None, None, None, mode # "self", excludeIds)

\* the isAll branch: activeScans.set(...); discoverMessages(...).then(...)
scanAll(w, userId, mode, excludeIds) ==
    discoverMessages(
        [Say(w, "scanning") EXCEPT !.scans[w.s.ch] = NewScan(w.me),
                  !.s.kind = "scan", !.s.mode = mode, !.s.userId = userId,
                  !.s.excl = excludeIds])

\* the in-progress check left out
BusyNever(w) == FALSE

\* if (activePurges.has(channelId)) { ...already in progress...; return }
Busy(w) == w.purges[w.s.ch].on

\* the body shared by the self, user and any subcommands
countOrRange(w, userId, mode, cdo, countStr, afterId, beforeId, excludeStr) ==
    LET excludeIds == parseExcludeIds(excludeStr) IN
    IF afterId # None \/ beforeId # None
    THEN IF countStr # <<"undefined">> THEN Say(w, "countWithRange")
         ELSE runPurge(w, userId, afterId, beforeId, None, cdo, excludeIds)
    ELSE IF countStr = <<"undefined">> THEN Say(w, "needCount")
    ELSE IF IsAll(countStr) THEN scanAll(w, userId, mode, excludeIds)
    ELSE IF parseInt(countStr) < 1 THEN Say(w, "invalidCount")
    ELSE runPurge(w, userId, None, None, parseInt(countStr), cdo, excludeIds)

\* a confirm that leaves the PendingConfirmation in the map
confirmKeeping(w) ==
    LET c == w.s.ch
        confirmation == w.pend[c]
    IN  IF ~confirmation.on THEN Say(w, "noPending")
        ELSE IF w.purges[c].on THEN Say(w, "inProgress")
        ELSE discoverMessages(
                [Say(w, "starting") EXCEPT !.purges[c] = NewPurge(w.me),
                    !.s.kind = "confirm", !.s.userId = confirmation.userId,
                    !.s.excl = confirmation.excludeIds])

\* subcommand === "confirm"
confirm(w) ==
    LET c == w.s.ch
        confirmation == w.pend[c]
    IN  IF ~confirmation.on THEN Say(w, "noPending")
        ELSE LET v == [w EXCEPT !.pend[c] = NoPending] IN
             IF v.purges[c].on THEN Say(v, "inProgress")
             ELSE discoverMessages(
                    [Say(v, "starting") EXCEPT !.purges[c] = NewPurge(w.me),
                        !.s.kind = "confirm", !.s.userId = confirmation.userId,
                        !.s.excl = confirmation.excludeIds,
                        !.s.count = IF env.count THEN confirmation.count ELSE 0])

\* subcommand === "self"
self(w, countStr, afterId, beforeId, excludeStr) ==
    IF Busy(w) THEN Say(w, "inProgress")
    ELSE countOrRange(w, Me, "self", FALSE, countStr, afterId, beforeId, excludeStr)

\* subcommand === "user"
user(w, target, countStr, afterId, beforeId, excludeStr) ==
    IF Busy(w) THEN Say(w, "inProgress")
    ELSE IF isDM(w.s.ch) THEN Say(w, "guildOnly")
    ELSE IF ~canManageMessages(w.s.ch) THEN Say(w, "needPermission")
    ELSE IF target = NoUser THEN Say(w, "invalidUser")
    ELSE countOrRange(w, target, "user", TRUE, countStr, afterId, beforeId, excludeStr)

\* subcommand === "any"
any(w, countStr, afterId, beforeId, excludeStr) ==
    IF Busy(w) THEN Say(w, "inProgress")
    ELSE IF ~(~isDM(w.s.ch) /\ canManageMessages(w.s.ch)) THEN Say(w, "needPermission")
    ELSE countOrRange(w, NoUser, "self", TRUE, countStr, afterId, beforeId, excludeStr)

\* subcommand === "after" (messageId is the after boundary) and
\* subcommand === "before" (messageId is the before boundary)
boundary(w, afterId, beforeId, messageId, excludeStr) ==
    LET canDeleteOthers == ~isDM(w.s.ch) /\ canManageMessages(w.s.ch) IN
    IF Busy(w) THEN Say(w, "inProgress")
    ELSE IF messageId = None THEN Say(w, "invalidId")
    ELSE runPurge(w, IF canDeleteOthers THEN NoUser ELSE Me, afterId, beforeId, None,
                  canDeleteOthers, parseExcludeIds(excludeStr))

\* A command other than confirm is taken when a slot is free for the call it
\* may start (without a call it leaves every map as it was).
SlotFree == \E p \in UseProcs : Free(p)

\* the slot the next async call takes
NextSlot == CHOOSE p \in UseProcs : Free(p) /\ \A q \in UseProcs : Free(q) => p <= q

\* execute(opts, ctx) ran to its end or to its first await, leaving world w
Handled(w) ==
    /\ IF w.s.pc = "idle" THEN UNCHANGED proc
       ELSE /\ Free(w.me) \/ Replaceable(w.me)
            /\ proc' = [proc EXCEPT ![w.me] = w.s]
    /\ activeScans' = w.scans
    /\ activePurges' = w.purges
    /\ pendingConfirmations' = w.pend
    /\ UNCHANGED <<chan, author, env>>

Start(c) == Fresh(c, IF SlotFree THEN NextSlot ELSE 1)

\* the slot the call of a confirm takes
ConfirmSlot ==
    IF SlotFree THEN NextSlot
    ELSE IF \E p \in UseProcs : Replaceable(p)
         THEN CHOOSE p \in UseProcs : Replaceable(p) /\ \A q \in UseProcs : Replaceable(q) => p <= q
         ELSE 1

Confirm(c) == Handled(confirm(Fresh(c, ConfirmSlot)))

Self(c) ==
    /\ SlotFree
    /\ \E r \in SelfRequests :
        Handled(self(Start(c), r.count, r.after, r.before, r.exclude))

User(c) ==
    /\ SlotFree
    /\ \E target \in Targets, r \in UserRequests :
        Handled(user(Start(c), target, r.count, r.after, r.before, r.exclude))

Any(c) ==
    /\ SlotFree
    /\ \E r \in AnyRequests :
        Handled(any(Start(c), r.count, r.after, r.before, r.exclude))

After(c) ==
    /\ SlotFree
    /\ \E r \in BoundaryRequests :
        Handled(boundary(Start(c), r.id, r.other, r.id, r.exclude))

Before(c) ==
    /\ SlotFree
    /\ \E r \in BoundaryRequests :
        Handled(boundary(Start(c), r.other, r.id, r.id, r.exclude))

\* ------------------------------------------------------- the specifications
AuthorMaps ==
    {[id \in Ids |-> Me],
     [id \in Ids |-> IF id % 2 = 1 THEN Me ELSE Other],
     [id \in Ids |-> IF id <= BATCH_SIZE THEN Me ELSE Other]}

Quiet ==
    /\ activePurges = [c \in Channels |-> NoPurge]
    /\ pendingConfirmations = [c \in Channels |-> NoPending]
    /\ activeScans = [c \in Channels |-> NoScan]
    /\ proc = [p \in Procs |-> Idle]

\* Two calls at a time in one guild channel, a few requests, a transport
\* with few faults.
Init ==
    /\ Quiet
    /\ chan = [c \in Channels |-> IF c = "c1" THEN 1..MaxSpecId ELSE {}]
    /\ author = [id \in Ids |-> IF id % 2 = 1 THEN Me ELSE Other]
    /\ env = [mode |-> "flaky", faults |-> MaxFaults, inputs |-> "few", keep |-> FALSE,
              count |-> FALSE, perm |-> TRUE, chans |-> {"c1"}, procs |-> Procs]

\* One call, any request, over any channel contents and a fault-free
\* transport whose pages honour the cursor.
InitWalk ==
    /\ Quiet
    /\ \E content \in SUBSET Ids :
          chan = [c \in Channels |-> IF c = "c1" THEN content ELSE {}]
    /\ author \in AuthorMaps
    /\ env = [mode |-> "honest", faults |-> 0, inputs |-> "all", keep |-> TRUE,
              count |-> TRUE, perm |-> TRUE, chans |-> {"c1"}, procs |-> {1}]

\* One call at a time, some requests, over a transport whose list calls fail or come
\* back empty, or that ignores the cursor.
InitFault ==
    /\ Quiet
    /\ chan = [c \in Channels |-> IF c = "c1" THEN Ids ELSE {}]
    /\ author = [id \in Ids |-> IF id % 2 = 1 THEN Me ELSE Other]
    /\ \E m \in {"flaky", "adversarial"} :
          env = [mode |-> m,
                 faults |-> IF m = "flaky" THEN MaxWalkFaults ELSE MaxBadPages,
                 inputs |-> "some", keep |-> TRUE, count |-> FALSE, perm |-> TRUE,
                 chans |-> {"c1"}, procs |-> {1}]

\* One call at a time, some requests, over a transport whose list and delete
\* calls fail or come back empty, often enough for a walk to give up.
InitRetry ==
    /\ Quiet
    /\ chan = [c \in Channels |-> IF c = "c1" THEN Ids ELSE {}]
    /\ author = [id \in Ids |-> IF id % 2 = 1 THEN Me ELSE Other]
    /\ env = [mode |-> "flaky", faults |-> MaxWalkFaults, inputs |-> "some",
              keep |-> TRUE, count |-> FALSE, perm |-> TRUE, chans |-> {"c1"}, procs |-> {1}]

Next ==
    \/ \E c \in UseChannels : Confirm(c)
    \/ \E c \in UseChannels : Self(c)
    \/ \E c \in UseChannels : User(c)
    \/ \E c \in UseChannels : Any(c)
    \/ \E c \in UseChannels : After(c)
    \/ \E c \in UseChannels : Before(c)
    \/ \E p \in Procs : FetchBatch(p)
    \/ \E p \in Procs : VerifyBatch(p)
    \/ \E p \in Procs : Wake(p)
    \/ \E p \in Procs : Delete(p)

\* One call at a time, some requests, a transport whose list and delete
\* calls may fail, cancellation and the loss of the permission.
InitEnv ==
    /\ Quiet
    /\ chan = [c \in Channels |-> IF c = "c1" THEN Ids ELSE {}]
    /\ author = [id \in Ids |-> IF id % 2 = 1 THEN Me ELSE Other]
    /\ env = [mode |-> "flaky", faults |-> MaxStopFaults, inputs |-> "more",
              keep |-> TRUE, count |-> TRUE, perm |-> TRUE, chans |-> {"c1"}, procs |-> {1}]

\* One call at a time, a few requests, and a transport that can fail every
\* attempt of one page fetch; cancellation.
InitLive ==
    /\ Quiet
    /\ chan = [c \in Channels |-> IF c = "c1" THEN 1..MaxSpecId ELSE {}]
    /\ author = [id \in Ids |-> IF id % 2 = 1 THEN Me ELSE Other]
    /\ env = [mode |-> "flaky", faults |-> MaxLiveFaults, inputs |-> "few",
              keep |-> TRUE, count |-> FALSE, perm |-> TRUE, chans |-> {"c1"}, procs |-> {1}]

\* One call at a time, requests of every mode, and a transport that honours
\* the cursor and can fail every attempt of one page fetch.
InitTerm ==
    /\ Quiet
    /\ chan = [c \in Channels |-> IF c = "c1" THEN 1..MaxSpecId ELSE {}]
    /\ author = [id \in Ids |-> IF id % 2 = 1 THEN Me ELSE Other]
    /\ env = [mode |-> "flaky", faults |-> MaxLiveFaults, inputs |-> "more",
              keep |-> TRUE, count |-> FALSE, perm |-> TRUE, chans |-> {"c1"}, procs |-> {1}]

\* Two calls over two channels, a server channel and a direct message
\* channel, with a fault-free transport and cancellation.
InitPair ==
    /\ Quiet
    /\ chan = [c \in Channels |-> IF c = "c1" THEN 1..MaxPairId ELSE {MaxId}]
    /\ author = [id \in Ids |-> IF id % 2 = 1 THEN Me ELSE Other]
    /\ env = [mode |-> "honest", faults |-> 0, inputs |-> "few", keep |-> FALSE,
              count |-> FALSE, perm |-> TRUE, chans |-> Channels, procs |-> Procs]

\* One call at a time, some requests, on a channel that others post on,
\* with a fault-free transport.
InitPost ==
    /\ Quiet
    /\ chan = [c \in Channels |-> IF c = "c1" THEN 1..MaxPairId ELSE {}]
    /\ author = [id \in Ids |-> IF id % 2 = 1 THEN Me ELSE Other]
    /\ env = [mode |-> "honest", faults |-> 0, inputs |-> "some",
              keep |-> TRUE, count |-> TRUE, perm |-> TRUE, chans |-> {"c1"}, procs |-> {1}]

NextPost ==
    \/ Next
    \/ \E c \in UseChannels : Post(c)

NextStop ==
    \/ Next
    \/ \E c \in UseChannels : StopScan(c)
    \/ \E c \in UseChannels : StopPurge(c)

NextEnv ==
    \/ Next
    \/ \E c \in UseChannels : StopScan(c)
    \/ \E c \in UseChannels : StopPurge(c)
    \/ Revoke

Spec == Init /\ [][Next]_vars
SpecWalk == InitWalk /\ [][Next]_vars
SpecFault == InitFault /\ [][Next]_vars
SpecRetry == InitRetry /\ [][Next]_vars
SpecEnv == InitEnv /\ [][NextEnv]_vars
\* every list call, delete call and sleep of a call in flight comes to an end
Fairness ==
    \A p \in Procs : /\ WF_vars(FetchBatch(p)) /\ WF_vars(VerifyBatch(p))
                     /\ WF_vars(Wake(p)) /\ WF_vars(Delete(p))
SpecPair == InitPair /\ [][NextStop]_vars
SpecLive == InitLive /\ [][NextStop]_vars /\ Fairness
SpecTerm == InitTerm /\ [][Next]_vars /\ Fairness
SpecPost == InitPost /\ [][NextPost]_vars

\* ================================================================ properties
\* the purge runs (bounded, ranged or confirmed) in flight on channel c
PurgeRuns(c) ==
    {p \in Procs : Running(p) /\ proc[p].ch = c /\ proc[p].kind \in {"run", "confirm"}}
\* p is not in flight before the step and is in flight, as kind k, after it
Starts(p, k) == ~Running(p) /\ proc'[p].pc \notin {"idle", "done"} /\ proc'[p].kind = k
\* p is in flight before the step and has settled after it
Settles(p) == Running(p) /\ proc'[p].pc \in {"idle", "done"}
\* the step is one of call p and of no other call
StepOf(p) == proc'[p] # proc[p] /\ \A q \in Procs \ {p} : proc'[q] = proc[q]

\* C1: on every channel at most one purge run is in flight, and it is in
\* flight exactly while the activePurges entry it created is in the map; a run
\* starts only when the channel has no entry; an entry leaves the map, or
\* gives way to another, only in a step of the run that created it.
C1_OnePurgePerChannel ==
    /\ [](\A c \in Channels :
            /\ Cardinality(PurgeRuns(c)) <= 1
            /\ activePurges[c].on <=> PurgeRuns(c) # {}
            /\ activePurges[c].on => activePurges[c].owner \in PurgeRuns(c))
    /\ [][\A p \in Procs : Starts(p, "run") \/ Starts(p, "confirm")
                              => ~activePurges[proc'[p].ch].on]_vars
    /\ [][\A c \in Channels :
            activePurges[c].on /\ activePurges'[c] # activePurges[c]
              => /\ StepOf(activePurges[c].owner)
                 /\ activePurges'[c].on => activePurges'[c].owner = activePurges[c].owner]_vars

\* a purge run is deleting while another call is in flight on its channel, and
\* a bounded self request made now is answered "already in progress"
C1_Witness ==
    \E c \in Channels, p, q \in Procs :
        /\ p \in PurgeRuns(c) /\ proc[p].pc = "del"
        /\ q # p /\ Running(q) /\ proc[q].ch = c
        /\ self(Fresh(c, q), <<"num", 1>>, None, None, <<>>).out = "inProgress"

\* C2: an 'all' request deletes nothing before its confirm. Only runs and
\* confirmed runs are ever at a delete call, and a run that is not a
\* confirmed one has a count limit or a boundary; a scan, from the step that
\* starts it to the step that settles it, leaves activePurges and the channel
\* as they are; a confirmed run starts only where a PendingConfirmation is
\* stored, and one is stored only by the step in which a scan settles.
C2_AllNeedsConfirm ==
    /\ [](\A p \in Procs :
            /\ proc[p].pc \in {"del", "delSleep"} => proc[p].kind \in {"run", "confirm"}
            /\ Running(p) /\ proc[p].kind = "run"
                 => proc[p].limit # None \/ proc[p].afterId # None \/ proc[p].beforeId # None)
    /\ [][\A p \in Procs :
            \/ Starts(p, "scan")
            \/ Running(p) /\ proc[p].kind = "scan" /\ proc'[p] # proc[p]
            => UNCHANGED <<activePurges, chan>>]_vars
    /\ [][\A p \in Procs :
            Starts(p, "confirm") => pendingConfirmations[proc'[p].ch].on]_vars
    /\ [][\A c \in Channels :
            pendingConfirmations'[c].on /\ pendingConfirmations'[c] # pendingConfirmations[c]
              => \E p \in Procs : proc[p].kind = "scan" /\ proc[p].ch = c /\ Settles(p)]_vars

\* a confirmed run is at a delete call
C2_Witness ==
    \E p \in Procs : proc[p].kind = "confirm" /\ proc[p].pc = "del"

\* C3: a command given while the channel has an activePurges entry, confirm
\* included, starts no call and leaves activePurges, activeScans and
\* pendingConfirmations as they are.
C3_RejectedWithoutSideEffects ==
    [][\A c \in Channels :
         activePurges[c].on
         /\ (Confirm(c) \/ Self(c) \/ User(c) \/ Any(c) \/ After(c) \/ Before(c))
         => UNCHANGED <<activePurges, activeScans, pendingConfirmations, proc>>]_vars

\* C4: a PendingConfirmation is consumed once. Where none is stored, confirm
\* answers "no pending confirmation", starts no call and changes no map; a
\* confirmed run starts only from a stored PendingConfirmation and its first
\* step removes it; no step of a confirm leaves one stored, and one is stored
\* only by the step in which a scan settles.
C4_ConsumedOnce ==
    /\ [](\A c \in Channels :
            ~pendingConfirmations[c].on =>
               LET w == confirm(Fresh(c, ConfirmSlot))
               IN  /\ w.out = "noPending" /\ w.s.pc = "idle"
                   /\ w.purges = activePurges /\ w.scans = activeScans
                   /\ w.pend = pendingConfirmations /\ w.chan = chan)
    /\ [][\A p \in Procs :
            Starts(p, "confirm") => /\ pendingConfirmations[proc'[p].ch].on
                                    /\ ~pendingConfirmations'[proc'[p].ch].on]_vars
    /\ [][\A c \in Channels : Confirm(c) => ~pendingConfirmations'[c].on]_vars
    /\ [][\A c \in Channels :
            ~pendingConfirmations[c].on /\ pendingConfirmations'[c].on
              => \E p \in Procs : proc[p].kind = "scan" /\ proc[p].ch = c /\ Settles(p)]_vars

\* a confirmed run is in flight, its PendingConfirmation gone, so that a
\* second confirm finds none
C4_Witness ==
    \E p \in Procs :
        /\ Running(p) /\ proc[p].kind = "confirm"
        /\ ~pendingConfirmations[proc[p].ch].on
        /\ confirm(Fresh(proc[p].ch, ConfirmSlot)).out = "noPending"

\* discovery has returned proc[p].msgs to the caller of p
Returned(p) == proc[p].pc \in {"del", "delSleep", "done"}
\* ... and the channel still holds what discovery walked over
Walked(p) == proc[p].pc \in {"del", "done"} /\ proc[p].deleted = 0
\* the records of p's channel that pass p's author filter
Matching(p) == {x \in chan[proc[p].ch] : Matches(proc[p], x)}
AfterOnly(p) == proc[p].afterId # None /\ proc[p].beforeId = None
BeforeOnly(p) == proc[p].afterId = None /\ proc[p].beforeId # None
Between(p) == proc[p].afterId # None /\ proc[p].beforeId # None

\* C5: with only an after boundary B, every record range discovery returns
\* is newer than B, and where B is not in the channel it returns none.
C5_AfterOnlyNewerThanBoundary ==
    \A p \in Procs :
        Returned(p) /\ AfterOnly(p) =>
            /\ \A x \in Range(proc[p].msgs) : x > proc[p].afterId
            /\ proc[p].afterId \notin chan[proc[p].ch] => proc[p].msgs = <<>>

C7_BeforeOnlyOlderThanBoundary ==
    \A p \in Procs :
        Returned(p) /\ BeforeOnly(p) =>
            /\ \A x \in Range(proc[p].msgs) : x < proc[p].beforeId
            /\ Walked(p) =>
                 proc[p].msgs = IF proc[p].beforeId \in chan[proc[p].ch]
                                THEN Desc({x \in Matching(p) : x < proc[p].beforeId})
                                ELSE <<>>

\* a before-only walk found B, returned two records older than it and left
\* out a matching record newer than it
C7_Witness ==
    \E p \in Procs :
        /\ Walked(p) /\ BeforeOnly(p) /\ proc[p].beforeId \in chan[proc[p].ch]
        /\ Len(proc[p].msgs) >= 2
        /\ \E x \in Matching(p) : x > proc[p].beforeId

\* C8: a call with count limit N never holds more than N records, and over
\* a channel with at least N matching records and a transport that does not
\* fail, discovery returns the N newest of them, newest first.
C8_CountLimit ==
    \A p \in Procs :
        proc[p].limit # None =>
            /\ Len(proc[p].msgs) <= proc[p].limit
            /\ Walked(p) /\ Cardinality(Matching(p)) >= proc[p].limit
                 => proc[p].msgs = Take(Desc(Matching(p)), proc[p].limit)

\* a walk with a limit beyond one page returned that many records and left
\* an older matching record out
C8_Witness ==
    \E p \in Procs :
        /\ Walked(p) /\ proc[p].limit # None /\ proc[p].limit > BATCH_SIZE
        /\ Len(proc[p].msgs) = proc[p].limit
        /\ Cardinality(Matching(p)) > proc[p].limit

\* C9: whatever pages the transport returns, the list a discovery builds and
\* returns holds no id twice.
C9_NoDuplicateIds ==
    \A p \in Procs : NoDup(proc[p].msgs)

\* over pages that ignore the cursor, a walk has dropped a record it had
\* seen before and returned more than one record
C9_Witness ==
    \E p \in Procs :
        /\ Returned(p) /\ proc[p].dup /\ env.mode = "adversarial"
        /\ Len(proc[p].msgs) >= 2

\* the records of p's list that the executor may pass to the delete call
Eligible(p) ==
    {k \in 1..Len(proc[p].recs) :
        proc[p].recs[k] \notin proc[p].excl /\ (proc[p].cdo \/ author[proc[p].recs[k]] = Me)}

\* C10: no id of the exclude set is passed to the delete call, in a run or
\* a confirmed run; an executor that ran to its end counts every record it
\* may delete as deleted or failed, so that over a list holding the one
\* excluded id X, every other record eligible, deleted + failed + 1 is the
\* length of the list.
C10_ExcludedNeverDeleted ==
    \A p \in Procs :
        /\ proc[p].pc \in {"del", "delSleep"} => proc[p].recs[proc[p].i] \notin proc[p].excl
        /\ proc[p].pc = "done" /\ proc[p].recs # <<>> =>
             /\ proc[p].deleted + proc[p].failed = Cardinality(Eligible(p))
             /\ (\E X \in Range(proc[p].recs) :
                    /\ proc[p].excl = {X}
                    /\ \A k \in 1..Len(proc[p].recs) :
                         proc[p].recs[k] # X => k \in Eligible(p))
                  => proc[p].deleted + proc[p].failed + 1 = Len(proc[p].recs)

\* a run over a list that holds the excluded id ran to its end, with a
\* deleted record
C10_Witness ==
    \E p \in Procs, X \in Ids :
        /\ proc[p].pc = "done" /\ proc[p].kind = "run"
        /\ proc[p].excl = {X} /\ X \in Range(proc[p].recs)
        /\ proc[p].deleted >= 1
        /\ proc[p].deleted + proc[p].failed + 1 = Len(proc[p].recs)

\* C11: an executor called with canDeleteOthers false never has a delete
\* call out for a record of another author, whatever list it was given.
C11_OnlyOwnWithoutPermission ==
    \A p \in Procs :
        proc[p].pc \in {"del", "delSleep"} /\ ~proc[p].cdo
            => author[proc[p].recs[proc[p].i]] = Me

\* a confirmed run, its permission lost after the scan, is at a delete call
\* for a record of the actor, having passed over a newer record of another
\* author in its list
C11_Witness ==
    \E p \in Procs :
        /\ proc[p].pc = "del" /\ ~proc[p].cdo /\ proc[p].kind = "confirm"
        /\ \E k \in 1..(proc[p].i - 1) : author[proc[p].recs[k]] # Me

\* the stop flag of the ScanState of p's channel is set
ScanFlagged(p) == activeScans[proc[p].ch].on /\ activeScans[proc[p].ch].stop

\* C12: once the stop flag of its ScanState is set, a scan that has
\* collected records issues at most one further page fetch; the step in which
\* it then returns hands back the records collected so far, a non-empty
\* list, and removes the channel's ScanState.
C12_CancelledScanReturnsAtOnce ==
    /\ [](\A p \in Procs :
            proc[p].kind = "scan" /\ proc[p].msgs # <<>> => proc[p].since <= 1)
    /\ [][\A p \in Procs :
            proc[p].kind = "scan" /\ ScanFlagged(p) /\ proc[p].msgs # <<>> /\ Settles(p)
              => /\ proc'[p].msgs = proc[p].msgs
                 /\ ~activeScans'[proc[p].ch].on]_vars

\* the walk of p is a cursor walk with no author filter and a limit above
\* the size of a channel whose last page is short
ShortLastPage(p) ==
    /\ proc[p].kind = "run" /\ ~proc[p].range /\ proc[p].userId = NoUser
    /\ proc[p].limit # None /\ proc[p].limit > Cardinality(chan[proc[p].ch])
    /\ Cardinality(chan[proc[p].ch]) % BATCH_SIZE # 0
\* the pages a channel of n records has
Pages(n) == (n + BATCH_SIZE - 1) \div BATCH_SIZE

\* C13: over a static channel whose last page is short, with a limit above
\* the channel's size and no author filter, discovery returns every record
\* and costs one page fetch per page followed by one verification fetch.
C13_OneVerificationFetch ==
    \A p \in Procs :
        Walked(p) /\ ShortLastPage(p) =>
            /\ proc[p].msgs = Desc(chan[proc[p].ch])
            /\ proc[p].lists = Pages(Cardinality(chan[proc[p].ch]))
            /\ proc[p].verifs = 1

\* C14: no entry of activePurges or activeScans stays for ever: while every
\* list call, delete call and sleep comes to an end, an entry that is in the
\* map is removed, however the call that made it ends, and the channel then
\* accepts a request again.
C14_NoOrphanedState ==
    \A c \in Channels :
        /\ activePurges[c].on ~> ~activePurges[c].on
        /\ activeScans[c].on ~> ~activeScans[c].on

\* a cancelled run sleeps after the last failed attempt of a page fetch
C14_Witness ==
    \E p \in Procs :
        /\ proc[p].kind = "run" /\ proc[p].pc = "retrySleep"
        /\ proc[p].retry = MAX_RETRIES - 1
        /\ activePurges[proc[p].ch].on /\ activePurges[proc[p].ch].stop

\* the number of the three maps that hold an entry of channel c
Entries(c) ==
    Cardinality({k \in {"scan", "pending", "purge"} :
                    \/ k = "scan" /\ activeScans[c].on
                    \/ k = "pending" /\ pendingConfirmations[c].on
                    \/ k = "purge" /\ activePurges[c].on})

\* C15: a channel is idle, scanning, awaiting a confirmation or purging, one
\* at a time: in no state does it have two of an activeScans entry, a
\* pendingConfirmations entry and an activePurges entry.
C15_StatesExclusive == \A c \in Channels : Entries(c) <= 1

\* C16: one worker per channel: in no state are two calls walking or deleting
\* on the same channel.
C16_SingleWorker ==
    \A p, q \in Procs :
        Running(p) /\ Running(q) /\ proc[p].ch = proc[q].ch => p = q

\* the channels of which an entry of one of the three maps changes in the step
Touched ==
    {c \in Channels : \/ activeScans'[c] # activeScans[c]
                      \/ activePurges'[c] # activePurges[c]
                      \/ pendingConfirmations'[c] # pendingConfirmations[c]}
\* a stop flag is set on channel c
Flagged(c) == activeScans[c].stop \/ activePurges[c].stop

\* C17: channels are independent: a step changes the entries of one channel
\* at most, a step of a call changes those of the call's own channel only,
\* and a call reads a stop flag as set only if one is set on its own channel.
C17_ChannelsIndependent ==
    /\ [](\A p \in Procs : Running(p) /\ shouldStop(World(p)) => Flagged(proc[p].ch))
    /\ [][/\ Cardinality(Touched) <= 1
          /\ \A p \in Procs :
                proc'[p] # proc[p] =>
                    Touched \subseteq {IF Running(p) THEN proc[p].ch ELSE proc'[p].ch}]_vars

\* a flag is set on one channel while a call on the other channel, which has
\* collected a record, goes on
C17_Witness ==
    \E p, q \in Procs :
        /\ Running(p) /\ Running(q) /\ proc[p].ch # proc[q].ch
        /\ Flagged(proc[p].ch) /\ ~shouldStop(World(q))
        /\ proc[q].msgs # <<>>

\* the eligible positions of p's list after position i
Later(p, i) == {k \in Eligible(p) : k > i}
\* the least position of a non-empty set of positions
First(S) == CHOOSE k \in S : \A j \in S : k <= j

\* C18: a failed delete does not abort the executor: while it runs, the
\* delete call that is out is for an eligible record and every eligible
\* record before it has been counted once, as deleted or as failed; after a
\* failed delete call the next eligible record gets its delete call, and
\* where none is left the executor returns with deleted + failed the number
\* of eligible records.
C18_FailedDeleteNeverAborts ==
    /\ [](\A p \in Procs :
            proc[p].pc \in {"del", "delSleep"} =>
                /\ proc[p].i \in Eligible(p)
                /\ proc[p].deleted + proc[p].failed =
                      Cardinality(Eligible(p) \ Later(p, proc[p].i))
                         - (IF proc[p].pc = "del" THEN 1 ELSE 0))
    /\ [][\A p \in Procs :
            proc[p].pc = "del" /\ proc'[p].failed = proc[p].failed + 1 =>
                IF Later(p, proc[p].i) # {}
                THEN /\ proc'[p].pc = "del"
                     /\ proc'[p].i = First(Later(p, proc[p].i))
                     /\ proc'[p].deleted = proc[p].deleted
                ELSE /\ proc'[p].pc = "done"
                     /\ proc'[p].deleted + proc'[p].failed = Cardinality(Eligible(p))]_vars

\* a delete call is out for a record that follows one whose delete failed
\* and one whose delete succeeded
C18_Witness ==
    \E p \in Procs :
        proc[p].pc = "del" /\ proc[p].failed >= 1 /\ proc[p].deleted >= 1

\* the count option is the numeral of a number greater than 0
PositiveNumber(countStr) == countStr[1] = "num" /\ countStr[2] >= 1
\* a request with a count and a boundary, or without both, or with a count
\* that is neither 'all' nor a positive number
Invalid(r) ==
    IF r.after # None \/ r.before # None THEN r.count # <<"undefined">>
    ELSE ~IsAll(r.count) /\ ~PositiveNumber(r.count)
\* the handler that left world w started no call and changed no map
NothingCreated(w) ==
    /\ w.s.pc = "idle"
    /\ w.scans = activeScans /\ w.purges = activePurges
    /\ w.pend = pendingConfirmations

\* C19: a self, user or any request with a count and a boundary, with a
\* missing count and no boundary, or with a count that is not a positive
\* number is rejected before any state is made: the handler leaves the three
\* maps as they are and starts no call, so that no list or delete call is
\* issued.
C19_InvalidRequestsRejected ==
    \A c \in UseChannels, r \in WideRequests :
        Invalid(r) =>
            /\ NothingCreated(self(Start(c), r.count, r.after, r.before, r.exclude))
            /\ NothingCreated(any(Start(c), r.count, r.after, r.before, r.exclude))
            /\ \A target \in Users \cup {NoUser} :
                  NothingCreated(user(Start(c), target, r.count, r.after, r.before, r.exclude))

\* C20: a scan that settles with the stop flag of its ScanState set leaves
\* the channel idle: the ScanState is removed and no PendingConfirmation is
\* stored from what the scan had collected.
C20_CancelledScanStoresNothing ==
    [][\A p \in Procs :
          proc[p].kind = "scan" /\ ScanFlagged(p) /\ Settles(p)
            => /\ ~activeScans'[proc[p].ch].on
               /\ pendingConfirmations' = pendingConfirmations]_vars

\* C21: a new 'all' scan discards the PendingConfirmation of its channel:
\* from the step in which the scan is accepted the channel holds no
\* PendingConfirmation a confirm could start a purge from.
C21_NewScanDiscardsPending ==
    [][\A p \in Procs :
          Starts(p, "scan") => ~pendingConfirmations'[proc'[p].ch].on]_vars

\* C22: while an 'all' scan is running the channel holds the ScanState that
\* scan created: no other call removes it or puts another in its place.
C22_ScanStateWhileScanning ==
    \A p \in Procs :
        proc[p].kind = "scan" /\ Running(p) =>
            /\ activeScans[proc[p].ch].on
            /\ activeScans[proc[p].ch].owner = p

\* the stop flag of the ActivePurge of p's channel is set
PurgeFlagged(p) == activePurges[proc[p].ch].on /\ activePurges[proc[p].ch].stop
\* p is a purge run or a confirmed run
Purging(p) == proc[p].kind \in {"run", "confirm"} /\ Running(p)

\* C23: once the stop flag of the channel's ActivePurge is set the executor
\* starts no delete call: a step of the run never ends with a new delete call
\* out; the delete call in flight settles and is counted, and the next step
\* of the executor returns the counts as they are and removes the entry.
C23_CancelledExecutorStops ==
    [][\A p \in Procs :
          Purging(p) /\ PurgeFlagged(p) /\ proc'[p] # proc[p] =>
              /\ proc'[p].pc # "del"
              /\ proc[p].pc = "del" =>
                    /\ proc'[p].deleted + proc'[p].failed
                          = proc[p].deleted + proc[p].failed + 1
                    /\ proc'[p].pc \in {"delSleep", "done"}
                    /\ proc'[p].failed # proc[p].failed => proc'[p].pc = "done"
              /\ proc[p].pc = "delSleep" =>
                    /\ proc'[p].pc = "done"
                    /\ proc'[p].deleted = proc[p].deleted
                    /\ proc'[p].failed = proc[p].failed
              /\ proc'[p].pc = "done" => ~activePurges'[proc[p].ch].on]_vars

\* a cancelled executor has returned with a record deleted and eligible
\* records left
C23_Witness ==
    \E p \in Procs :
        /\ proc[p].pc = "done" /\ proc[p].kind \in {"run", "confirm"}
        /\ proc[p].deleted >= 1
        /\ proc[p].deleted + proc[p].failed < Cardinality(Eligible(p))

\* C24: once a stop flag of its channel is set, a cursor walk or a range walk
\* issues at most one further page fetch before it returns, retries of a
\* failed fetch included.
C24_OneFetchAfterStop == \A p \in Procs : Running(p) => proc[p].since <= 1

\* C25: a bounded, ranged or confirmed run makes the channel's activePurges
\* entry in the step that starts it, before its first list call; the entry
\* is in the map at every list call and delete call of the run, and leaves
\* the map only in the step in which the run returns.
C25_PurgeStateCoversRun ==
    /\ [](\A p \in Procs :
            Purging(p) => /\ activePurges[proc[p].ch].on
                          /\ activePurges[proc[p].ch].owner = p)
    /\ [][\A p \in Procs :
            /\ Purging(p) /\ ~activePurges'[proc[p].ch].on => Settles(p)
            /\ Starts(p, "run") \/ Starts(p, "confirm") =>
                  /\ ~activePurges[proc'[p].ch].on
                  /\ activePurges'[proc'[p].ch].on
                  /\ proc'[p].pc = "fetch"]_vars

\* the delete call of a confirmed run is out
C25_Witness ==
    \E p \in Procs :
        /\ proc[p].kind = "confirm" /\ proc[p].pc = "del"
        /\ activePurges[proc[p].ch].on

\* C26: a page fetch that threw a permanent error is not attempted again:
\* the next step of the call is not a retry of the fetch, it ends the call.
C26_PermanentErrorNotRetried ==
    [][\A p \in Procs :
          proc[p].pc = "retrySleep" /\ proc[p].err = "permanent" /\ proc'[p] # proc[p]
            => proc'[p].pc # "fetch" /\ Settles(p)]_vars

\* C27: a page fetch is attempted five times at most and a verification
\* fetch three times at most; after a failed attempt the next is made while
\* fewer than five were made, and only after the fifth is the page given up;
\* an attempt that returns a page is followed by no further attempt for
\* that page.
C27_BoundedAttempts ==
    /\ [](\A p \in Procs :
            /\ proc[p].pc \in {"fetch", "retrySleep"} => proc[p].retry < MAX_RETRIES
            /\ proc[p].pc \in {"verifyE", "verifyESleep", "verifyS", "verifySSleep"}
                  => proc[p].vtry < MAX_VERIFY)
    /\ [][\A p \in Procs :
            /\ proc[p].pc = "retrySleep" /\ proc'[p] # proc[p] =>
                  IF proc[p].retry + 1 < MAX_RETRIES
                  THEN proc'[p].pc = "fetch" /\ proc'[p].retry = proc[p].retry + 1
                  ELSE proc'[p].pc \in {"errSleep", "del", "done"}
            /\ proc[p].pc = "fetch" /\ proc'[p] # proc[p] /\ proc'[p].pc # "retrySleep"
                  => (proc'[p].pc = "fetch" => proc'[p].retry = 0)]_vars

\* after a page that was given up, the fifth attempt for a page is out
C27_Witness ==
    \E p \in Procs :
        proc[p].pc = "fetch" /\ proc[p].retry = MAX_RETRIES - 1 /\ proc[p].cerr >= 1

\* the fifth attempt of a page fetch of p's cursor walk has failed
GivingUp(p) ==
    /\ ~proc[p].range /\ proc[p].pc = "retrySleep"
    /\ proc[p].retry = MAX_RETRIES - 1

\* C28: a cursor walk that gives a page up goes on to the next attempt at
\* the page unless it is the third page given up in a row; at the third it
\* returns, with every record it has collected, to its caller (a run goes on
\* to the deletion of those records); a page fetch that succeeds sets the
\* count of pages given up in a row back to zero.
C28_ThreeConsecutiveFailures ==
    /\ [](\A p \in Procs : Running(p) /\ proc[p].pc \notin {"del", "delSleep"}
                              => proc[p].cerr < MAX_CONSECUTIVE_ERRORS)
    /\ [][\A p \in Procs :
            /\ GivingUp(p) /\ proc'[p] # proc[p] =>
                  /\ proc'[p].msgs = proc[p].msgs
                  /\ proc'[p].cerr = proc[p].cerr + 1 \/ proc'[p].pc = "done"
                  /\ IF proc[p].cerr + 1 < MAX_CONSECUTIVE_ERRORS
                     THEN proc'[p].pc = "errSleep"
                     ELSE /\ proc'[p].pc \in {"del", "done"}
                          /\ proc'[p].pc = "del" => proc'[p].recs = proc[p].msgs
            /\ (/\ ~proc[p].range /\ proc[p].pc = "fetch" /\ proc'[p] # proc[p]
                /\ proc'[p].pc \notin {"retrySleep", "done"})
                  => proc'[p].cerr = 0]_vars

\* a run whose walk gave up three pages in a row is deleting the records
\* the walk had collected
C28_Witness ==
    \E p \in Procs :
        /\ proc[p].kind = "run" /\ proc[p].pc = "del"
        /\ proc[p].cerr = MAX_CONSECUTIVE_ERRORS /\ proc[p].recs = proc[p].msgs

\* C29: a range walk tolerates a page it gives up as the cursor walk does:
\* after the fifth failed attempt of a page fetch it goes on to a new attempt
\* at the page, unless it is the third page given up in a row.
C29_RangeWalkSameTolerance ==
    [][\A p \in Procs :
          (/\ proc[p].range /\ proc[p].pc = "retrySleep"
           /\ proc[p].retry = MAX_RETRIES - 1
           /\ proc[p].cerr + 1 < MAX_CONSECUTIVE_ERRORS
           /\ proc'[p] # proc[p])
            => proc'[p].pc = "errSleep" /\ proc'[p].cerr = proc[p].cerr + 1]_vars

\* the newest page of p's channel
FirstPage(p) == HonestPage(proc[p].ch, None)

\* C30: the cursor moves to the oldest id of a page whether or not that
\* record matched: over a static channel and a fault-free transport the walk
\* of an 'all' scan returns every record of the channel that passes the
\* author filter, newest first, also those behind full pages with no match.
C30_UnboundedWalkComplete ==
    \A p \in Procs :
        proc[p].kind = "scan" /\ proc[p].pc = "done" =>
            proc[p].msgs = Desc(Matching(p))

\* a scan has returned records that lie behind a full page with no match
C30_Witness ==
    \E p \in Procs :
        /\ proc[p].kind = "scan" /\ proc[p].pc = "done" /\ proc[p].msgs # <<>>
        /\ Len(FirstPage(p)) = BATCH_SIZE
        /\ \A k \in 1..Len(FirstPage(p)) : ~Matches(proc[p], FirstPage(p)[k])

\* p is in its discovery walk: a list call or a sleep of the walk is pending
Discovering(p) == Running(p) /\ proc[p].pc \notin {"del", "delSleep"}

\* C31: every discovery returns: over a finite channel and a transport that
\* honours the cursor, with failed calls and empty pages, a walk that is in
\* progress comes to its end, in every mode.
C31_DiscoveryTerminates == \A p \in Procs : Discovering(p) ~> ~Discovering(p)

\* a range walk waits for a page after a failed attempt and an empty page
C31_Witness ==
    \E p \in Procs :
        /\ proc[p].range /\ proc[p].afterId # None /\ proc[p].beforeId # None
        /\ proc[p].pc = "fetch" /\ proc[p].retry >= 1 /\ proc[p].empties >= 1

\* C32: a walk ends when a full page does not move its cursor: after a list
\* call that leaves the cursor where it was, the walk, cursor walk or range
\* walk, does not sleep and ask for another page.
C32_StalledCursorEndsWalk ==
    [][\A p \in Procs :
          (/\ proc[p].pc = "fetch" /\ proc[p].last # None
           /\ proc'[p].last = proc[p].last)
            => proc'[p].pc # "pageSleep"]_vars

\* C33: a walk with an after boundary ends at the page in which it sees the
\* boundary record: while the walk goes on, so wherever it issues a list
\* call, it has not seen the boundary; and with the boundary in the channel
\* no record older than it is ever among the collected ones.
C33_EndsAtAfterBoundary ==
    \A p \in Procs :
        proc[p].range /\ proc[p].afterId # None =>
            /\ Discovering(p) => proc[p].afterId \notin proc[p].seen
            /\ proc[p].afterId \in chan[proc[p].ch]
                 => \A x \in Range(proc[p].msgs) : x > proc[p].afterId

\* the list call of the retry loop of p settles, in this step, with the page
\* of the channel, which holds records
GetsPage(p) ==
    /\ proc[p].pc = "fetch" /\ StepOf(p) /\ env' = env
    /\ HonestPage(proc[p].ch, proc[p].last) # <<>>
\* ... settles with an empty page
GetsEmptyPage(p) ==
    /\ proc[p].pc = "fetch" /\ StepOf(p) /\ proc'[p].pc # "retrySleep"
    /\ (env' # env \/ HonestPage(proc[p].ch, proc[p].last) = <<>>)
\* the walk of p returns in this step
WalkEnds(p) == Discovering(p) /\ ~Discovering(p)'

\* a page with records after one or two empty pages is processed, and the
\* count of empty pages starts again; an empty page that is not the third in a
\* row, and the sleep after it, do not end the walk
ToleratesEmptyPages ==
    \A p \in Procs :
        /\ GetsPage(p) /\ proc[p].empties \in 1..(MAX_EMPTY_BATCHES - 1)
             => /\ proc'[p].empties = 0
                /\ Discovering(p)' =>
                     Range(HonestPage(proc[p].ch, proc[p].last)) \subseteq proc'[p].seen
        /\ GetsEmptyPage(p) /\ WalkEnds(p)
             => proc[p].empties = MAX_EMPTY_BATCHES - 1
        /\ proc[p].pc = "emptySleep" => ~WalkEnds(p)

\* C34 as stated: empty pages are tolerated up to three: a page with records
\* after one or two empty pages is processed and the count starts again, and
\* a walk ends on empty pages only after the third in a row and three
\* verification list calls that returned nothing.
C34_EmptyPagesVerified ==
    [][/\ ToleratesEmptyPages
       /\ \A p \in Procs : ~(GetsEmptyPage(p) /\ WalkEnds(p))]_vars

\* C34 amended: ... and a walk ends on empty pages only after the third in a
\* row and, where it has a cursor, three verification list calls that
\* returned nothing; a walk that has no cursor yet ends at its third empty
\* page with no verification list call.
C34_EmptyPagesTolerated ==
    [][/\ ToleratesEmptyPages
       /\ \A p \in Procs :
            /\ GetsEmptyPage(p) /\ WalkEnds(p) => proc[p].last = None
            /\ proc[p].pc = "verifyESleep" /\ WalkEnds(p)
                 => /\ proc[p].empties = MAX_EMPTY_BATCHES
                    /\ proc[p].vtry = MAX_VERIFY - 1]_vars

\* a walk with a cursor has had three empty pages in a row and three
\* verification list calls that returned nothing, with records still there
C34_Witness ==
    \E p \in Procs :
        /\ proc[p].pc = "verifyESleep" /\ proc[p].last # None
        /\ proc[p].empties = MAX_EMPTY_BATCHES /\ proc[p].vtry = MAX_VERIFY - 1
        /\ HonestPage(proc[p].ch, proc[p].last) # <<>>

\* C35: the progress callback of a scan is called only when the count
\* changed: a step of the walk calls it at most once, only in a step in which
\* a page is processed and the number of collected records changed, and with
\* that number; the values it is called with are strictly increasing.
C35_ProgressOnlyOnChange ==
    [][\A p \in Procs :
          Discovering(p) /\ proc[p].kind = "scan" /\ proc'[p].kind = "scan" =>
            /\ proc'[p].reported # proc[p].reported
                 => /\ proc'[p].reported = Append(proc[p].reported, Len(proc'[p].msgs))
                    /\ Len(proc'[p].msgs) > Len(proc[p].msgs)
                    /\ proc[p].pc \in {"fetch", "verifyE"}
            /\ \A i, j \in DOMAIN proc'[p].reported :
                  i < j => proc'[p].reported[i] < proc'[p].reported[j]]_vars

\* a scan was told of a count, and has since processed a page that left the
\* count as it was
C35_Witness ==
    \E p \in Procs :
        /\ Discovering(p) /\ proc[p].kind = "scan"
        /\ Len(proc[p].reported) = 1 /\ Len(proc[p].msgs) = proc[p].reported[1]
        /\ Cardinality({x \in proc[p].seen : x < proc[p].msgs[Len(proc[p].msgs)]})
             >= BATCH_SIZE

\* the walk of the scan p on channel c returns in this step
ScanEnds(p, c) == proc[p].kind = "scan" /\ proc[p].ch = c /\ WalkEnds(p)

\* C36: a PendingConfirmation is stored only by a scan whose walk returned
\* at least one record that is not excluded: its count is the number of those
\* records, at least 1, and its author filter and excluded ids are those of
\* the scan; a scan that is left with no record stores nothing; and a confirm
\* walks with the stored author filter and deletes no excluded record.
C36_PendingOnlyWithRecords ==
    [][\A c \in Channels :
          /\ pendingConfirmations'[c].on => pendingConfirmations'[c].count >= 1
          /\ pendingConfirmations'[c].on /\ pendingConfirmations'[c] # pendingConfirmations[c]
               => \E p \in Procs :
                     /\ ScanEnds(p, c)
                     /\ pendingConfirmations'[c].count = Len(Filtered(proc'[p]))
                     /\ pendingConfirmations'[c].userId = proc'[p].userId
                     /\ pendingConfirmations'[c].excludeIds = proc'[p].excl
          /\ \A p \in Procs :
                /\ ScanEnds(p, c) /\ Filtered(proc'[p]) = <<>>
                     => pendingConfirmations'[c] = pendingConfirmations[c]
                /\ Starts(p, "confirm") /\ proc'[p].ch = c
                     => /\ proc'[p].userId = pendingConfirmations[c].userId
                        /\ proc'[p].excl = pendingConfirmations[c].excludeIds
                /\ proc'[p].kind = "confirm" /\ proc'[p].ch = c
                     => /\ Range(proc'[p].recs) \cap proc'[p].excl = {}
                        /\ \A x \in Range(proc'[p].msgs) : Matches(proc'[p], x)
                        /\ Range(proc'[p].recs) \subseteq Range(proc'[p].msgs)]_vars

\* a confirmed purge deletes the records of the stored author while the
\* channel holds one of that author that the scan request excluded
C36_Witness ==
    \E p \in Procs :
        /\ proc[p].kind = "confirm" /\ proc[p].pc = "del" /\ proc[p].deleted >= 1
        /\ proc[p].userId # NoUser
        /\ \E x \in Matching(p) : x \in proc[p].excl

\* C37: the delay between deletions comes after every delete call but the
\* last of a run: a delete call that settles, with success or with failure,
\* is never followed by the next delete call without a delay, and the delay
\* is never the last step of the run.
C37_DelayBetweenDeletions ==
    [][\A p \in Procs :
          /\ proc[p].pc = "del" /\ StepOf(p) => proc'[p].pc # "del"
          /\ proc[p].pc = "delSleep" /\ StepOf(p) => proc'[p].pc = "del"]_vars

\* C38: a confirmed purge issues no more delete calls than the count of the
\* PendingConfirmation it consumed, the number the user was told and
\* confirmed, also where records were posted between the scan and the confirm.
C38_ConfirmDeletesAtMostCount ==
    \A p \in Procs :
        proc[p].kind = "confirm" =>
            proc[p].deleted + proc[p].failed <= proc[p].count

\* C39: a purge or a scan in progress can be stopped from within the program:
\* wherever a channel has one, some step of the program sets the stop flag of
\* the channel's activePurges or activeScans entry.
C39_StopFromWithin ==
    \A c \in Channels :
        activePurges[c].on \/ activeScans[c].on =>
            ENABLED (Next /\ (activePurges'[c].stop \/ activeScans'[c].stop))

\* executePurge called for channel c with every record of the channel while
\* activePurges has no entry for c
UnheldCall(c) ==
    executePurge([Fresh(c, 1) EXCEPT !.purges[c] = NoPurge, !.s.kind = "run"],
                 Desc(chan[c]), TRUE)

\* C40: the executor needs the channel's activePurges entry: called without
\* one it returns zero counts at once, with no delete call; and while it runs
\* the deleted and failed fields of the entry equal its own counters, and
\* they never decrease while the entry is in the map.
C40_ExecutorMirrorsCounts ==
    [][/\ \A c \in UseChannels :
            /\ UnheldCall(c).s.pc \in {"idle", "done"}
            /\ UnheldCall(c).s.deleted = 0 /\ UnheldCall(c).s.failed = 0
            /\ UnheldCall(c).chan = chan /\ UnheldCall(c).out = "result"
            /\ activePurges[c].on /\ activePurges'[c].on
               /\ activePurges'[c].owner = activePurges[c].owner
                 => /\ activePurges'[c].deleted >= activePurges[c].deleted
                    /\ activePurges'[c].failed >= activePurges[c].failed
       /\ \A p \in Procs :
            proc[p].pc \in {"del", "delSleep"} =>
                /\ activePurges[proc[p].ch].on
                /\ activePurges[proc[p].ch].owner = p
                /\ activePurges[proc[p].ch].deleted = proc[p].deleted
                /\ activePurges[proc[p].ch].failed = proc[p].failed]_vars

\* an executor has counted a deletion and a failure, and a delete call is
\* pending
C40_Witness ==
    \E p \in Procs :
        /\ proc[p].pc = "del" /\ proc[p].deleted >= 1 /\ proc[p].failed >= 1
        /\ activePurges[proc[p].ch].deleted = proc[p].deleted
        /\ activePurges[proc[p].ch].failed = proc[p].failed
====
